---------------------------- MODULE Spec2Model ----------------------------
(***************************************************************************)
(* The lease lock and transactional synchronisation layer of               *)
(* src/core/db_manager.py (DatabaseManager, DatabaseLock).                 *)
(*                                                                         *)
(* Every process owns one DatabaseManager.  The object store is shared:    *)
(* one lease blob "<db_filename>.lock", one canonical blob "<db_filename>" *)
(* and the backup blobs "backups/<db_filename>.<timestamp>".  One action   *)
(* is one store operation (or one purely local step between two of them),  *)
(* so that the processes interleave exactly where the code can be          *)
(* preempted by another process.                                           *)
(*                                                                         *)
(* Time.  datetime.utcnow() and time.time() are read only to be compared   *)
(* with an earlier reading, so a stored time stamp is modelled by the      *)
(* clock that measures the time since it was taken: lock.age is            *)
(* utcnow() - timestamp of the lease, call[p].elapsed is                   *)
(* time.time() - start_time.  Tick advances all clocks by one second; a    *)
(* clock stops growing one past the largest value it is compared with.     *)
(* Any amount of time may pass between two steps of a process.             *)
(***************************************************************************)
EXTENDS Naturals, Sequences, FiniteSets

(***************************************************************************)
(* Bounds of the model.  The limits of the code (MAX_LOCK_AGE = 300,       *)
(* timeout = 60, LOCK_RETRY_ATTEMPTS = 5, LOCK_RETRY_DELAY = 2) are        *)
(* configuration read from cfg; Init of Spec picks the small values below  *)
(* and Init of the crash-recovery scenario picks the values of the code.   *)
(***************************************************************************)
Procs == {1, 2}

MaxCalls == 2

LockTimeout == 2

AcquireTimeout == 2

RetryAttempts == 1

RetryDelay == 1

\* src/core/db_manager.py:30, 33, 34 and the default of acquire_lock (315)
MAX_LOCK_AGE == 300

LOCK_RETRY_ATTEMPTS == 5

LOCK_RETRY_DELAY == 2

DEFAULT_TIMEOUT == 60

VARIABLES
    cfg,        \* lock_timeout, timeout, retry attempts and delay in force, and
                \* the processes whose DatabaseManager has a bucket
    lock,       \* the lease blob: exists, lock_id, age of its timestamp
    canon,      \* the canonical blob: exists, data (the records of the store)
    backups,    \* the backup blobs in key order, one data set per key
    backupNow,  \* a backup key carrying the timestamp of the current second exists
    mgr,        \* per process: the DatabaseManager's lock_id, local file, engine
    call,       \* per process: the position and the locals of the running call
    hist,       \* per process: what the current with_session call has done so far
    ncalls,     \* acquire_lock calls started so far (the source of unique ids)
    returned    \* records committed by with_session calls that returned a result

vars == <<cfg, lock, canon, backups, backupNow, mgr, call, hist, ncalls, returned>>

NoId == 0

NoLease == [exists |-> FALSE, lock_id |-> NoId, age |-> 0]

\* the stored lease is in force and is not the one instance p has written
ForeignLiveLease(p) ==
    /\ lock.exists /\ lock.age <= cfg.lock_timeout
    /\ lock.lock_id # mgr[p].lock_id

NoBlob == [exists |-> FALSE, data |-> {}]

Min(a, b) == IF a < b THEN a ELSE b

\* a DatabaseManager that treats every instance as having a bucket
has_bucket_always(p) == TRUE

\* 127-134: self.bucket is None (local-only mode) when the storage client
\* could not be created
has_bucket(p) == p \in cfg.bucket

-----------------------------------------------------------------------------
(***************************************************************************)
(* The pure parts of the lock functions.  `ok` is FALSE when the store     *)
(* operation inside raises.                                                *)
(***************************************************************************)

\* _lock_exists: lock_blob.exists(), False when the check raises
lock_exists(ok) == ok /\ lock.exists

EmptyInfo == [present |-> FALSE, lock_id |-> NoId, age |-> 0]

\* _get_lock_info: the lease as a dictionary, {} when absent or unreadable
get_lock_info(ok) ==
    IF ok /\ lock.exists
    THEN [present |-> TRUE, lock_id |-> lock.lock_id, age |-> lock.age]
    ELSE EmptyInfo

\* _is_lock_expired: True for {}, else lock_age > self.lock_timeout
is_lock_expired(info) ==
    IF ~info.present THEN TRUE ELSE info.age > cfg.lock_timeout

\* _create_lock: the lease written by upload_from_string (it replaces any blob)
new_lease(id) == [exists |-> TRUE, lock_id |-> id, age |-> 0]

\* initialize_db: create_all on local_path keeps the rows of an existing file
initialize_db(file) == IF file.exists THEN file ELSE [exists |-> TRUE, data |-> {}]

\* download_db that replaces the local file by an empty store when the
\* fetch fails
download_db_fresh_on_error(file, ok) ==
    IF ok
    THEN IF canon.exists THEN [exists |-> TRUE, data |-> canon.data]
                         ELSE initialize_db(file)
    ELSE [exists |-> TRUE, data |-> {}]

\* download_db that never fetches the canonical blob
download_db_local_only(file, ok) == initialize_db(file)

\* download_db with a bucket: the file at local_path after the call
download_db(file, ok) ==
    IF ok
    THEN IF canon.exists THEN [exists |-> TRUE, data |-> canon.data]
                         ELSE initialize_db(file)
    ELSE initialize_db(file)

\* download_db sets self.engine only through initialize_db
download_sets_engine(file, ok) ==
    IF ok THEN ~canon.exists ELSE ~file.exists

\* upload_db: backup_blob.upload_from_filename under the key of this second
write_backup(data) ==
    IF backupNow
    THEN [backups EXCEPT ![Len(backups)] = data]
    ELSE Append(backups, data)

-----------------------------------------------------------------------------
IdleCall ==
    [pc |-> "idle", ctx |-> "none", inScope |-> FALSE, id |-> NoId,
     elapsed |-> 0, attempt |-> 0, sleepLeft |-> 0]

\* What the last with_session call of the process has done (kept until its
\* next call starts).  outcome: how the call ended; wlog: its successful writes
\* to data keys; uploadErr: upload_db caught a store error; relCalls: its calls
\* of release_lock; relOk: what _release_lock returned; mustSee: the records
\* committed by calls that had returned when it started; direct: acquire_lock
\* started with no lease in the store (and, once it has returned, did so
\* without sleeping); expired: the current iteration of acquire_lock, or the
\* one that returned, found the lease expired; dlErr: download_db caught a
\* store error (kept until the transform is over); owner: the lock_id named
\* in the DatabaseLockException of the attempt ceiling (NoId for "unknown");
\* started: with_session has entered its try block and called download_db;
\* readErr: a store read of the current iteration of acquire_lock raised;
\* broke: the acquire_lock that is running has deleted a lease that was in
\* force and carried another lock_id than the instance's
NoHist ==
    [outcome |-> "none", wlog |-> <<>>, uploadErr |-> FALSE, relCalls |-> 0,
     relOk |-> TRUE, mustSee |-> {}, direct |-> FALSE, expired |-> FALSE,
     dlErr |-> FALSE, owner |-> NoId, started |-> FALSE,
     readErr |-> FALSE, broke |-> FALSE]

InitCommon ==
    /\ lock = NoLease
    /\ canon = NoBlob
    /\ backups = <<>>
    /\ backupNow = FALSE
    /\ mgr = [p \in Procs |-> [lock_id |-> NoId, local |-> NoBlob, engine |-> FALSE]]
    /\ call = [p \in Procs |-> IdleCall]
    /\ hist = [p \in Procs |-> NoHist]
    /\ ncalls = 0
    /\ returned = {}

Init ==
    /\ cfg = [lock_timeout |-> LockTimeout, timeout |-> AcquireTimeout,
              attempts |-> RetryAttempts, delay |-> RetryDelay, bucket |-> Procs]
    /\ InitCommon

-----------------------------------------------------------------------------
(***************************************************************************)
(* Where a call continues when acquire_lock or release_lock ends.          *)
(***************************************************************************)
AcqPcs == {"acq_exists", "acq_info", "acq_force", "acq_create", "acq_owner",
           "acq_sleep"}

\* a with_session that calls the transform right after acquire_lock
AcquireReturned_skips_download(c) ==
    IF c.ctx = "scope"
    THEN [c EXCEPT !.pc = "body", !.inScope = TRUE, !.elapsed = 0, !.attempt = 0]
    ELSE [c EXCEPT !.pc = "ws_func", !.elapsed = 0, !.attempt = 0]

\* acquire_lock returns True: DatabaseLock.__enter__ enters the body,
\* with_session goes on to download_db
AcquireReturned(c) ==
    IF c.ctx = "scope"
    THEN [c EXCEPT !.pc = "body", !.inScope = TRUE, !.elapsed = 0, !.attempt = 0]
    ELSE [c EXCEPT !.pc = "ws_download", !.elapsed = 0, !.attempt = 0]

\* a with_session that goes on to download_db when acquire_lock has raised
AcquireRaised_goes_on(c) == AcquireReturned(c)

\* acquire_lock raises DatabaseLockException: __enter__ fails and the body never
\* runs; with_session raises outside its try (462), and inside a DatabaseLock
\* body the exception leaves the scope, whose __exit__ calls release_lock
AcquireRaised(c) ==
    IF c.ctx = "session" /\ c.inScope
    THEN [c EXCEPT !.pc = "release", !.ctx = "scope", !.elapsed = 0, !.attempt = 0]
    ELSE IdleCall

\* release_lock is over: with_session returns the result or re-raises (inside
\* a scope a result returns to the body and an exception leaves the scope);
\* DatabaseLock.__exit__ ends the scope
Released(c, outcome) ==
    IF c.ctx = "session" /\ c.inScope
    THEN IF outcome = "result"
         THEN [c EXCEPT !.pc = "body", !.ctx = "scope"]
         ELSE [c EXCEPT !.pc = "release", !.ctx = "scope"]
    ELSE IdleCall

\* the records committed by the with_session calls that returned a result
Committed(p) ==
    IF call[p].ctx = "session" /\ hist[p].outcome = "result"
    THEN returned \cup ({call[p].id} \cap mgr[p].local.data)
    ELSE returned

-----------------------------------------------------------------------------
(***************************************************************************)
(* Entry points.  acquire_lock (328-337) returns True at once without a     *)
(* bucket; with one it takes start_time and passes the first timeout check *)
(* at once.                                                                *)
(***************************************************************************)
Enter(p, ctx) ==
    /\ ncalls < MaxCalls
    /\ ncalls' = ncalls + 1
    /\ LET c == [call[p] EXCEPT !.pc = "acq_exists", !.ctx = ctx,
                                !.id = ncalls + 1, !.elapsed = 0,
                                !.attempt = 0, !.sleepLeft = 0]
       IN call' = [call EXCEPT ![p] =
                     IF has_bucket(p) THEN c ELSE AcquireReturned(c)]
    /\ hist' = [hist EXCEPT ![p] =
                  [NoHist EXCEPT !.mustSee = returned, !.direct = ~lock.exists]]
    /\ UNCHANGED <<cfg, lock, canon, backups, backupNow, mgr, returned>>

\* with_session (443-462) called at top level: acquire_lock() starts
StartSession(p) ==
    /\ call[p].pc = "idle"
    /\ Enter(p, "session")

\* with DatabaseLock(db_manager): __enter__ (74-85) calls acquire_lock
EnterScope(p) ==
    /\ call[p].pc = "idle"
    /\ Enter(p, "scope")

\* a db_manager method called in the body of a DatabaseLock scope, as the
\* request handlers do: with_session starts while the instance holds its lease
BodySession(p) ==
    /\ call[p].pc = "body"
    /\ Enter(p, "session")

\* an __exit__ that does not release
exit_scope_no_release(c) == IdleCall

\* __exit__ (87-96): self.db_manager.release_lock(); it returns None
exit_scope(c) == [c EXCEPT !.pc = "release", !.ctx = "scope"]

\* the body of the scope ends: __exit__ (87-96) calls release_lock
ExitScope(p) ==
    /\ call[p].pc = "body"
    /\ call' = [call EXCEPT ![p] = exit_scope(@)]
    /\ UNCHANGED <<cfg, lock, canon, backups, backupNow, mgr, hist, ncalls, returned>>

-----------------------------------------------------------------------------
(***************************************************************************)
(* acquire_lock (315-366).                                                 *)
(***************************************************************************)

\* 340: if not self._lock_exists()
LockExistsStep(p, ok) ==
    /\ call[p].pc = "acq_exists"
    /\ call' = [call EXCEPT ![p] =
                  [@ EXCEPT !.pc = IF lock_exists(ok) THEN "acq_info" ELSE "acq_create"]]
    /\ hist' = [hist EXCEPT ![p] = [@ EXCEPT !.readErr = ~ok]]
    /\ UNCHANGED <<cfg, lock, canon, backups, backupNow, mgr, ncalls, returned>>

\* the ceiling test written with >=
wait_or_fail_early(c) ==
    IF c.attempt + 1 >= cfg.attempts
    THEN [c EXCEPT !.attempt = c.attempt + 1, !.pc = "acq_owner"]
    ELSE [c EXCEPT !.attempt = c.attempt + 1, !.pc = "acq_sleep",
                   !.sleepLeft = cfg.delay]

\* an acquire loop that sleeps without counting the attempt
wait_or_fail_uncounted(c) ==
    [c EXCEPT !.pc = "acq_sleep", !.sleepLeft = cfg.delay]

\* 356-366: attempt += 1, then the ceiling or the sleep
wait_or_fail(c) ==
    IF c.attempt + 1 > cfg.attempts
    THEN [c EXCEPT !.attempt = c.attempt + 1, !.pc = "acq_owner"]
    ELSE [c EXCEPT !.attempt = c.attempt + 1, !.pc = "acq_sleep",
                   !.sleepLeft = cfg.delay]

\* a _create_lock that keeps the generated lock_id when the write raises
lock_id_kept_after_create(id, ok) == id

\* _create_lock (236, 256): lock_id is the generated id, None when the
\* write raised
lock_id_after_create(id, ok) == IF ok THEN id ELSE NoId

\* 342-343 and 352-353: if self._create_lock(): return True
\* _create_lock (226-257) sets lock_id and writes the lease, or clears lock_id
CreateLockStep(p, ok) ==
    /\ call[p].pc = "acq_create"
    /\ IF ok
       THEN /\ lock' = new_lease(call[p].id)
            /\ mgr' = [mgr EXCEPT ![p] =
                          [@ EXCEPT !.lock_id = lock_id_after_create(call[p].id, ok)]]
            /\ call' = [call EXCEPT ![p] = AcquireReturned(@)]
            /\ hist' = [hist EXCEPT ![p] =
                          [@ EXCEPT !.direct = @ /\ call[p].attempt = 0,
                                    !.readErr = FALSE,
                                    !.broke = FALSE]]
       ELSE /\ lock' = lock
            /\ mgr' = [mgr EXCEPT ![p] =
                          [@ EXCEPT !.lock_id = lock_id_after_create(call[p].id, ok)]]
            /\ call' = [call EXCEPT ![p] = wait_or_fail(@)]
            /\ hist' = [hist EXCEPT ![p] =
                          [@ EXCEPT !.expired = FALSE, !.readErr = FALSE]]
    /\ UNCHANGED <<cfg, canon, backups, backupNow, ncalls, returned>>

\* 346-350: the lease is read; expired, it is force-released without waiting
LockInfoStep(p, ok) ==
    /\ call[p].pc = "acq_info"
    /\ IF is_lock_expired(get_lock_info(ok))
       THEN /\ call' = [call EXCEPT ![p] = [@ EXCEPT !.pc = "acq_force"]]
            /\ hist' = [hist EXCEPT ![p] =
                          [@ EXCEPT !.expired = TRUE, !.readErr = ~ok]]
       ELSE /\ call' = [call EXCEPT ![p] = wait_or_fail(@)]
            /\ hist' = hist
    /\ UNCHANGED <<cfg, lock, canon, backups, backupNow, mgr, ncalls, returned>>

\* a force release that leaves the lease in the store
force_release_lock_keeps(ok) == lock

\* _force_release_lock (294-313): exists() and delete(), errors swallowed
force_release_lock(ok) == IF ok THEN NoLease ELSE lock

ForceReleaseStep(p, ok) ==
    /\ call[p].pc = "acq_force"
    /\ lock' = force_release_lock(ok)
    /\ call' = [call EXCEPT ![p] = [@ EXCEPT !.pc = "acq_create"]]
    /\ hist' = [hist EXCEPT ![p] =
                  [@ EXCEPT !.broke = @ \/ (ForeignLiveLease(p) /\ lock' # lock)]]
    /\ UNCHANGED <<cfg, canon, backups, backupNow, mgr, ncalls, returned>>

\* acquire_lock ends with DatabaseLockException
RaiseLockException(p, owner) ==
    LET c == AcquireRaised(call[p])
    IN /\ call' = [call EXCEPT ![p] = c]
       /\ hist' = [hist EXCEPT ![p] =
                     IF call[p].ctx = "session"
                     THEN [@ EXCEPT !.outcome = "lockfail", !.owner = owner,
                                    !.broke = FALSE]
                     ELSE [@ EXCEPT !.owner = owner, !.broke = FALSE]]

\* 357-362: the ceiling is passed; the holder is read for the message, raise
OwnerStep(p, ok) ==
    /\ call[p].pc = "acq_owner"
    /\ RaiseLockException(p, get_lock_info(ok).lock_id)
    /\ UNCHANGED <<cfg, lock, canon, backups, backupNow, mgr, ncalls, returned>>

\* acquire_lock without the timeout check
timed_out_never(c) == FALSE

\* the timeout check comparing against the retry delay
timed_out_after_delay(c) == c.elapsed >= cfg.delay

\* 336: the timeout check that follows time.sleep at the top of the loop
timed_out(c) == c.elapsed > cfg.timeout

\* 366, 336: time.sleep(LOCK_RETRY_DELAY) is over and the timeout has not passed
AcqWake(p) ==
    /\ call[p].pc = "acq_sleep"
    /\ call[p].sleepLeft = 0
    /\ ~timed_out(call[p])
    /\ call' = [call EXCEPT ![p] = [@ EXCEPT !.pc = "acq_exists"]]
    /\ UNCHANGED <<cfg, lock, canon, backups, backupNow, mgr, hist, ncalls, returned>>

\* 366, 336-337: time.sleep is over and the timeout has passed: raise
AcqTimeout(p) ==
    /\ call[p].pc = "acq_sleep"
    /\ call[p].sleepLeft = 0
    /\ timed_out(call[p])
    /\ RaiseLockException(p, NoId)
    /\ UNCHANGED <<cfg, lock, canon, backups, backupNow, mgr, ncalls, returned>>

AcqLockExists(p) == LockExistsStep(p, TRUE)

AcqCreateLock(p) == CreateLockStep(p, TRUE)

AcqLockInfo(p) == LockInfoStep(p, TRUE)

AcqForceRelease(p) == ForceReleaseStep(p, TRUE)

AcqOwner(p) == OwnerStep(p, TRUE)

-----------------------------------------------------------------------------
(***************************************************************************)
(* with_session (443-487) after acquire_lock returned.                     *)
(***************************************************************************)

\* download_db of the instance of p (373-396): without a bucket the local
\* file is only initialised when it is missing (394-395)
download(p, ok) ==
    IF has_bucket(p) THEN download_db(mgr[p].local, ok)
                     ELSE initialize_db(mgr[p].local)

download_engine(p, ok) ==
    IF has_bucket(p) THEN download_sets_engine(mgr[p].local, ok)
                     ELSE ~mgr[p].local.exists

\* download_db catches a store error (389-392); no store, no error
download_error(p, ok) == has_bucket(p) /\ ~ok

\* 466: self.download_db()
DownloadStep(p, ok) ==
    /\ call[p].pc = "ws_download"
    /\ LET engine == mgr[p].engine \/ download_engine(p, ok)
       IN /\ mgr' = [mgr EXCEPT ![p] =
                       [@ EXCEPT !.local = download(p, ok), !.engine = engine]]
          /\ call' = [call EXCEPT ![p] =
                        [@ EXCEPT !.pc = IF engine THEN "ws_func" ELSE "ws_session"]]
    /\ hist' = [hist EXCEPT ![p] =
                  [@ EXCEPT !.dlErr = @ \/ download_error(p, ok), !.started = TRUE]]
    /\ UNCHANGED <<cfg, lock, canon, backups, backupNow, ncalls, returned>>

\* 467: get_session (429-441) with no engine yet downloads once more and
\* creates the engine
GetSessionStep(p, ok) ==
    /\ call[p].pc = "ws_session"
    /\ mgr' = [mgr EXCEPT ![p] =
                 [@ EXCEPT !.local = download(p, ok), !.engine = TRUE]]
    /\ call' = [call EXCEPT ![p] = [@ EXCEPT !.pc = "ws_func"]]
    /\ hist' = [hist EXCEPT ![p] = [@ EXCEPT !.dlErr = @ \/ download_error(p, ok)]]
    /\ UNCHANGED <<cfg, lock, canon, backups, backupNow, ncalls, returned>>

\* upload_db starting at the backup write
after_commit_backup_only(c) == [c EXCEPT !.pc = "ws_backup"]

\* with_session returning right after the commit, outside any finally clause
after_commit_no_release(c) == IdleCall

\* 469-476: after the commit upload_db is called
after_commit(c) == [c EXCEPT !.pc = "ws_upload"]

\* with_session swallowing the exception and going on to upload_db
on_error_uploads(c) == [c EXCEPT !.pc = "ws_upload"]

\* with_session without the finally clause: the exception leaves the call and
\* release_lock is not called
on_error_no_finally(c) == IdleCall

\* 477-487: an exception inside the try: rollback, re-raise, then the finally
\* clause calls release_lock; nothing is uploaded
on_error(c) == [c EXCEPT !.pc = "release"]

\* 471-473: func(session) adds a record and session.commit() writes it to the
\* local file
commit(file, rec) == [file EXCEPT !.data = @ \cup {rec}]

TransformWrites(p) ==
    /\ call[p].pc = "ws_func"
    /\ mgr' = [mgr EXCEPT ![p] = [@ EXCEPT !.local = commit(@, call[p].id)]]
    /\ call' = [call EXCEPT ![p] = after_commit(@)]
    /\ hist' = [hist EXCEPT ![p] = [@ EXCEPT !.dlErr = FALSE]]
    /\ UNCHANGED <<cfg, lock, canon, backups, backupNow, ncalls, returned>>

\* 471-473: func(session) only reads; the commit changes nothing
TransformReads(p) ==
    /\ call[p].pc = "ws_func"
    /\ call' = [call EXCEPT ![p] = after_commit(@)]
    /\ hist' = [hist EXCEPT ![p] = [@ EXCEPT !.dlErr = FALSE]]
    /\ UNCHANGED <<cfg, lock, canon, backups, backupNow, mgr, ncalls, returned>>

TransformRaises(p) ==
    /\ call[p].pc = "ws_func"
    /\ call' = [call EXCEPT ![p] = on_error(@)]
    /\ hist' = [hist EXCEPT ![p] = [@ EXCEPT !.outcome = "raised", !.dlErr = FALSE]]
    /\ UNCHANGED <<cfg, lock, canon, backups, backupNow, mgr, ncalls, returned>>

\* an upload error that leaves with_session through the except clause
after_upload_error_raises(h) == [h EXCEPT !.uploadErr = TRUE, !.outcome = "raised"]

\* 419-420, 476: an upload error is only printed and with_session returns
\* the result of the transform
after_upload_error(h) == [h EXCEPT !.uploadErr = TRUE, !.outcome = "result"]

\* a canonical write that replaces the blob although the store raised
write_canonical_despite_error(data, ok) == [exists |-> TRUE, data |-> data]

\* 408-409: blob.upload_from_filename(self.local_path) replaces the canonical
\* blob, or raises and leaves it
write_canonical(data, ok) == IF ok THEN [exists |-> TRUE, data |-> data] ELSE canon

\* upload_db (402-409): without a bucket it returns at once (402-404) and
\* with_session returns the result; with one,
\* blob.upload_from_filename(self.local_path); an error is caught (419-420)
\* and skips the backup
UploadCanonStep(p, ok) ==
    /\ call[p].pc = "ws_upload"
    /\ IF ~has_bucket(p)
       THEN /\ canon' = canon
            /\ call' = [call EXCEPT ![p] = [@ EXCEPT !.pc = "release"]]
            /\ hist' = [hist EXCEPT ![p] = [@ EXCEPT !.outcome = "result"]]
       ELSE IF ok
       THEN /\ canon' = write_canonical(mgr[p].local.data, ok)
            /\ call' = [call EXCEPT ![p] = [@ EXCEPT !.pc = "ws_backup"]]
            /\ hist' = [hist EXCEPT ![p] = [@ EXCEPT !.wlog = Append(@, "canon")]]
       ELSE /\ canon' = write_canonical(mgr[p].local.data, ok)
            /\ call' = [call EXCEPT ![p] = [@ EXCEPT !.pc = "release"]]
            /\ hist' = [hist EXCEPT ![p] = after_upload_error(@)]
    /\ UNCHANGED <<cfg, lock, backups, backupNow, mgr, ncalls, returned>>

\* upload_db (411-414): the timestamped backup; then `return result` (476)
UploadBackupStep(p, ok) ==
    /\ call[p].pc = "ws_backup"
    /\ IF ok
       THEN /\ backups' = write_backup(mgr[p].local.data)
            /\ backupNow' = TRUE
            /\ hist' = [hist EXCEPT ![p] =
                          [@ EXCEPT !.wlog = Append(@, "backup"), !.outcome = "result"]]
       ELSE /\ UNCHANGED <<backups, backupNow>>
            /\ hist' = [hist EXCEPT ![p] = after_upload_error(@)]
    /\ call' = [call EXCEPT ![p] = [@ EXCEPT !.pc = "release"]]
    /\ UNCHANGED <<cfg, lock, canon, mgr, ncalls, returned>>

WsDownload(p) == DownloadStep(p, TRUE)

WsGetSession(p) == GetSessionStep(p, TRUE)

WsUploadCanon(p) == UploadCanonStep(p, TRUE)

WsUploadBackup(p) == UploadBackupStep(p, TRUE)

-----------------------------------------------------------------------------
(***************************************************************************)
(* release_lock (368-371) and _release_lock (259-292).                     *)
(***************************************************************************)
CountRelease(p, h) ==
    IF call[p].ctx = "session" THEN [h EXCEPT !.relCalls = @ + 1] ELSE h

\* the call that invoked release_lock goes on
Return(p, h) ==
    LET c == Released(call[p], hist[p].outcome)
    IN /\ call' = [call EXCEPT ![p] = c]
       /\ hist' = [hist EXCEPT ![p] = h]
       /\ returned' = Committed(p)

\* a release_lock that calls _release_lock whatever lock_id is
holds_lock_id_always(id) == TRUE

\* 370: if self.lock_id
holds_lock_id(id) == id # NoId

\* 370: if self.lock_id: self._release_lock()
ReleaseLock(p) ==
    /\ call[p].pc = "release"
    /\ IF holds_lock_id(mgr[p].lock_id)
       THEN /\ call' = [call EXCEPT ![p] = [@ EXCEPT !.pc = "rel_info"]]
            /\ hist' = [hist EXCEPT ![p] = CountRelease(p, @)]
            /\ returned' = returned
       ELSE Return(p, CountRelease(p, hist[p]))
    /\ UNCHANGED <<cfg, lock, canon, backups, backupNow, mgr, ncalls>>

\* _release_lock without the ownership check
owns_lock_unchecked(info, id) == TRUE

\* 272-273: the ownership check on the lease read back from the store
owns_lock(info, id) == info.lock_id = id

\* 272-276: not the owner: warn, clear lock_id, return False
ReleaseInfoStep(p, ok) ==
    /\ call[p].pc = "rel_info"
    /\ IF owns_lock(get_lock_info(ok), mgr[p].lock_id)
       THEN /\ call' = [call EXCEPT ![p] = [@ EXCEPT !.pc = "rel_delete"]]
            /\ UNCHANGED <<mgr, hist, returned>>
       ELSE /\ mgr' = [mgr EXCEPT ![p] = [@ EXCEPT !.lock_id = NoId]]
            /\ Return(p, [hist[p] EXCEPT !.relOk = FALSE])
    /\ UNCHANGED <<cfg, lock, canon, backups, backupNow, ncalls>>

\* 279-292: lock_blob.delete(); NotFound counts as released, any other error
\* as a failure; lock_id is cleared on every path
delete_lock(ok) == IF ok THEN NoLease ELSE lock

\* a _release_lock that keeps lock_id when the delete raises
lock_id_kept_on_error(id, ok) == IF ok THEN NoId ELSE id

\* 283, 287, 291: self.lock_id = None after the delete, whatever it did
lock_id_after_delete(id, ok) == NoId

ReleaseDeleteStep(p, ok) ==
    /\ call[p].pc = "rel_delete"
    /\ lock' = delete_lock(ok)
    /\ mgr' = [mgr EXCEPT ![p] = [@ EXCEPT !.lock_id = lock_id_after_delete(@, ok)]]
    /\ Return(p, [hist[p] EXCEPT !.relOk = ok])
    /\ UNCHANGED <<cfg, canon, backups, backupNow, ncalls>>

RelInfo(p) == ReleaseInfoStep(p, TRUE)

RelDelete(p) == ReleaseDeleteStep(p, TRUE)

-----------------------------------------------------------------------------
(***************************************************************************)
(* One second passes.                                                      *)
(***************************************************************************)
TickCall(c) ==
    [c EXCEPT !.elapsed = IF c.pc \in AcqPcs THEN Min(@ + 1, cfg.timeout + 1) ELSE @,
              !.sleepLeft = IF @ > 0 THEN @ - 1 ELSE 0]

Tick ==
    /\ lock' = [lock EXCEPT !.age = IF lock.exists THEN Min(@ + 1, cfg.lock_timeout + 1)
                                                   ELSE @]
    /\ call' = [p \in Procs |-> TickCall(call[p])]
    /\ backupNow' = FALSE
    /\ UNCHANGED <<cfg, canon, backups, mgr, hist, ncalls, returned>>

-----------------------------------------------------------------------------
(***************************************************************************)
(* Spec: processes that call with_session; every store operation succeeds. *)
(***************************************************************************)
Session(p) ==
    \/ StartSession(p)
    \/ AcqLockExists(p) \/ AcqCreateLock(p) \/ AcqLockInfo(p) \/ AcqForceRelease(p)
    \/ AcqOwner(p) \/ AcqWake(p) \/ AcqTimeout(p)
    \/ WsDownload(p) \/ WsGetSession(p)
    \/ TransformWrites(p) \/ TransformReads(p) \/ TransformRaises(p)
    \/ WsUploadCanon(p) \/ WsUploadBackup(p)
    \/ ReleaseLock(p) \/ RelInfo(p) \/ RelDelete(p)

Next == Tick \/ \E p \in Procs : Session(p)

Spec == Init /\ [][Next]_vars

(***************************************************************************)
(* SpecScope: the processes also open DatabaseLock scopes and call         *)
(* with_session in their bodies.                                           *)
(***************************************************************************)
Scope(p) == EnterScope(p) \/ BodySession(p) \/ ExitScope(p)

NextScope == Next \/ \E p \in Procs : Scope(p)

SpecScope == Init /\ [][NextScope]_vars

(***************************************************************************)
(* SpecF: store operations may raise, and so may the local steps of        *)
(* with_session (initialize_db or create_engine, the commit).              *)
(***************************************************************************)

\* _lock_exists (173-175): the check raises and is reported as "no lock"
AcqLockExistsFails(p) == LockExistsStep(p, FALSE)

\* _create_lock (254-257): the upload raises
AcqCreateLockFails(p) == CreateLockStep(p, FALSE)

\* _get_lock_info (196-198): the read raises and {} is returned
AcqLockInfoFails(p) == LockInfoStep(p, FALSE)

\* _force_release_lock (311-313): the delete raises
AcqForceReleaseFails(p) == ForceReleaseStep(p, FALSE)

\* download_db (389-392): the fetch raises
WsDownloadFails(p) == DownloadStep(p, FALSE)

WsGetSessionFails(p) == GetSessionStep(p, FALSE)

\* 466-467: initialize_db or create_engine raises inside the outer try
DownloadRaises(p) ==
    /\ call[p].pc \in {"ws_download", "ws_session"}
    /\ call' = [call EXCEPT ![p] = on_error(@)]
    /\ hist' = [hist EXCEPT ![p] = [@ EXCEPT !.outcome = "raised", !.dlErr = FALSE,
                                             !.started = TRUE]]
    /\ UNCHANGED <<cfg, lock, canon, backups, backupNow, mgr, ncalls, returned>>

\* 473, 477-481: session.commit() raises: rollback and re-raise
CommitRaises(p) ==
    /\ call[p].pc = "ws_func"
    /\ call' = [call EXCEPT ![p] = on_error(@)]
    /\ hist' = [hist EXCEPT ![p] = [@ EXCEPT !.outcome = "raised", !.dlErr = FALSE]]
    /\ UNCHANGED <<cfg, lock, canon, backups, backupNow, mgr, ncalls, returned>>

\* upload_db (419-420): a write raises and the error is only printed
WsUploadCanonFails(p) == UploadCanonStep(p, FALSE)

WsUploadBackupFails(p) == UploadBackupStep(p, FALSE)

\* _release_lock: the read (196-198) or the delete (289-292) raises
RelInfoFails(p) == ReleaseInfoStep(p, FALSE)

RelDeleteFails(p) == ReleaseDeleteStep(p, FALSE)

Fault(p) ==
    \/ AcqLockExistsFails(p) \/ AcqCreateLockFails(p) \/ AcqLockInfoFails(p)
    \/ AcqForceReleaseFails(p)
    \/ WsDownloadFails(p) \/ WsGetSessionFails(p) \/ DownloadRaises(p)
    \/ CommitRaises(p)
    \/ WsUploadCanonFails(p) \/ WsUploadBackupFails(p)
    \/ RelInfoFails(p) \/ RelDeleteFails(p)

NextF == Next \/ \E p \in Procs : Fault(p)

SpecF == Init /\ [][NextF]_vars

(***************************************************************************)
(* SpecAll: scopes and failures together.                                  *)
(***************************************************************************)
NextAll == NextScope \/ \E p \in Procs : Fault(p)

SpecAll == Init /\ [][NextAll]_vars

(***************************************************************************)
(* SpecLocal: at least one DatabaseManager could not create its storage    *)
(* client and runs in local-only mode (127-134), next to instances that    *)
(* have the bucket (which may hold a canonical blob of an earlier run);    *)
(* cleanup tooling may call _force_release_lock.                           *)
(***************************************************************************)
InitLocal ==
    /\ \E b \in (SUBSET Procs) \ {Procs} :
          cfg = [lock_timeout |-> LockTimeout, timeout |-> AcquireTimeout,
                 attempts |-> RetryAttempts, delay |-> RetryDelay, bucket |-> b]
    /\ lock = NoLease
    /\ canon \in {NoBlob, [exists |-> TRUE, data |-> {}]}
    /\ backups = <<>>
    /\ backupNow = FALSE
    /\ mgr = [p \in Procs |-> [lock_id |-> NoId, local |-> NoBlob, engine |-> FALSE]]
    /\ call = [p \in Procs |-> IdleCall]
    /\ hist = [p \in Procs |-> NoHist]
    /\ ncalls = 0
    /\ returned = {}

\* _force_release_lock (294-313) called directly on an idle instance: True
\* at once without a bucket, else the lease is deleted whoever owns it
ForceReleaseLock(p) ==
    /\ call[p].pc = "idle"
    /\ ncalls < MaxCalls
    /\ ncalls' = ncalls + 1
    /\ lock' = IF has_bucket(p) THEN force_release_lock(TRUE) ELSE lock
    /\ hist' = [hist EXCEPT ![p] = [NoHist EXCEPT !.outcome = "forced"]]
    /\ UNCHANGED <<cfg, canon, backups, backupNow, mgr, call, returned>>

\* release_lock (368-371) called directly on an idle instance
DirectRelease(p) ==
    /\ call[p].pc = "idle"
    /\ ncalls < MaxCalls
    /\ ncalls' = ncalls + 1
    /\ call' = [call EXCEPT ![p] = [@ EXCEPT !.pc = "release", !.ctx = "direct"]]
    /\ hist' = [hist EXCEPT ![p] = [NoHist EXCEPT !.outcome = "released"]]
    /\ UNCHANGED <<cfg, lock, canon, backups, backupNow, mgr, returned>>

NextLocal ==
    NextScope \/ \E p \in Procs : ForceReleaseLock(p) \/ DirectRelease(p)

SpecLocal == InitLocal /\ [][NextLocal]_vars

(***************************************************************************)
(* SpecLive: sessions whose store operations inside acquire_lock may       *)
(* raise, with fairness.  Every process is a running thread of its own:    *)
(* when it has a next step it eventually takes it (a store operation       *)
(* returns or raises, time.sleep returns), and time goes on.               *)
(***************************************************************************)
AcquireFault(p) ==
    \/ AcqLockExistsFails(p) \/ AcqCreateLockFails(p) \/ AcqLockInfoFails(p)
    \/ AcqForceReleaseFails(p)

NextLive == Next \/ \E p \in Procs : AcquireFault(p)

Fairness ==
    /\ WF_vars(Tick)
    /\ \A p \in Procs : WF_vars(Session(p) \/ AcquireFault(p))

SpecLive == Init /\ [][NextLive]_vars /\ Fairness


-----------------------------------------------------------------------------
(***************************************************************************)
(* SpecC7: crash recovery.  One instance has written its lease and crashed *)
(* (it takes no further step); the other calls with_session.  The retry    *)
(* constants are the program's; lock_timeout is 5 and the acquire timeout  *)
(* 30 (or the 60 that with_session passes by default).  For contrast the   *)
(* scenario is also run with the default lock_timeout and with a short     *)
(* timeout, where the contender gives up.  Store operations take no time   *)
(* here: time passes only while the contender sleeps, runs its transform   *)
(* or is idle.                                                             *)
(***************************************************************************)
C7Config ==
    [lock_timeout |-> 5, timeout |-> 30,
     attempts |-> LOCK_RETRY_ATTEMPTS, delay |-> LOCK_RETRY_DELAY,
     bucket |-> Procs]

C7Recovering == {C7Config, [C7Config EXCEPT !.timeout = DEFAULT_TIMEOUT]}

C7Configs ==
    C7Recovering \cup {[C7Config EXCEPT !.lock_timeout = MAX_LOCK_AGE],
                       [C7Config EXCEPT !.timeout = LOCK_RETRY_DELAY]}

InitC7 ==
    /\ cfg \in C7Configs
    /\ canon \in {NoBlob, [exists |-> TRUE, data |-> {}]}
    /\ backups = <<>>
    /\ backupNow = FALSE
    /\ hist = [p \in Procs |-> NoHist]
    /\ ncalls = 1
    /\ returned = {}
    /\ lock = new_lease(1)
    /\ \E a \in Procs :
          /\ mgr = [p \in Procs |->
                      IF p = a
                      THEN [lock_id |-> 1, local |-> initialize_db(NoBlob),
                            engine |-> TRUE]
                      ELSE [lock_id |-> NoId, local |-> NoBlob, engine |-> FALSE]]
          /\ call = [p \in Procs |->
                       IF p = a
                       THEN [IdleCall EXCEPT !.pc = "crashed", !.ctx = "session",
                                             !.id = 1]
                       ELSE IdleCall]

\* 366: the clock advances while the contender is in time.sleep, in its
\* transform, or not in a call
TickC7 ==
    /\ \A p \in Procs :
          \/ call[p].pc \in {"idle", "crashed", "ws_func"}
          \/ call[p].pc = "acq_sleep" /\ call[p].sleepLeft > 0
    /\ Tick

NextC7 == TickC7 \/ \E p \in Procs : Session(p)

SpecC7 == InitC7 /\ [][NextC7]_vars

------------------------------------------------------------------------------
\* Properties

\* an instance holds the lease from the return of acquire_lock to its call of
\* release_lock (a with_session running inside a DatabaseLock scope holds the
\* scope's lease while it acquires and after it has released)
HolderPcs ==
    {"body", "ws_download", "ws_session", "ws_func", "ws_upload", "ws_backup",
     "release"}

Holder(p) ==
    \/ call[p].pc \in HolderPcs
    \/ call[p].inScope /\ call[p].ctx = "session"

\* C1: at no instant are two DatabaseManager instances both holders of the
\* lease.  Refuted: _lock_exists and _create_lock are two store operations,
\* and two instances that both see no lease both write one and both return.
C1_MutualExclusion ==
    \A p, q \in Procs : p # q => ~(Holder(p) /\ Holder(q))

\* C2: of the instances that call acquire_lock while no lease is stored, only
\* one returns without sleeping.  Refuted by the same interleaving as C1: two
\* instances that started with no lease stored both hold it, neither having
\* slept.
C2_OneDirectAcquirer ==
    \A p, q \in Procs :
        p # q => ~(Holder(p) /\ hist[p].direct /\ Holder(q) /\ hist[q].direct)

\* the step in which the with_session call of p hands control back to its
\* caller (a result, a re-raised exception or DatabaseLockException)
SessionEnds(p) == call[p].ctx = "session" /\ call'[p].ctx # "session"

\* C3 as stated: a with_session call whose function raised has uploaded
\* nothing, and the lease blob is absent when it hands control back.
C3_LeaseAbsentAfterRaise ==
    [][\A p \in Procs :
          SessionEnds(p) /\ hist'[p].outcome = "raised"
              => hist'[p].wlog = <<>> /\ ~lock'.exists]_vars

\* C3: a with_session call whose function raised has uploaded nothing, has
\* called release_lock once and has cleared lock_id; the lease blob is absent
\* when it hands control back unless the stored lease did not carry the
\* instance's lock_id or _release_lock returned False, and then the stored
\* lease is left as it was.
C3_NoUploadAndOwnLeaseReleased ==
    [][\A p \in Procs :
          SessionEnds(p) /\ hist'[p].outcome = "raised"
              => /\ hist'[p].wlog = <<>>
                 /\ hist'[p].relCalls = 1
                 /\ mgr'[p].lock_id = NoId
                 /\ lock'.exists
                      => /\ lock' = lock
                         /\ lock.lock_id # mgr[p].lock_id \/ ~hist'[p].relOk]_vars

\* a call whose function raised is over, it released its lease and the lease
\* blob is gone
C3_Witness ==
    \E p \in Procs :
        /\ call[p].pc = "idle" /\ hist[p].outcome = "raised"
        /\ hist[p].relCalls = 1 /\ hist[p].relOk /\ ~lock.exists

\* C4 as stated: a with_session call that acquired the lease has called
\* release_lock exactly once when it hands control back, whatever the exit
\* path; one whose acquire_lock raised leaves lock_id None.
C4_ReleasedOnceOrLockIdNone ==
    [][\A p \in Procs :
          SessionEnds(p)
              => IF call[p].pc \in AcqPcs
                 THEN mgr'[p].lock_id = NoId
                 ELSE hist'[p].relCalls = 1]_vars

\* C4: a with_session call that acquired the lease has called release_lock
\* exactly once, as its last step, when it hands control back, and lock_id is
\* None then; one whose acquire_lock raised has not called release_lock and
\* holds no lease of its own: lock_id is None, or, inside a DatabaseLock
\* scope of the same instance, possibly still the id of the scope's lease.
C4_ReleasedOnceOrNoOwnLease ==
    [][\A p \in Procs :
          SessionEnds(p)
              => IF call[p].pc \in AcqPcs
                 THEN /\ hist'[p].relCalls = 0
                      /\ mgr'[p].lock_id # call[p].id
                      /\ ~call[p].inScope => mgr'[p].lock_id = NoId
                 ELSE /\ hist'[p].relCalls = 1
                      /\ mgr'[p].lock_id = NoId]_vars

\* acquire_lock of a with_session inside a DatabaseLock scope has raised and
\* the instance still carries the lock_id of the scope's lease
C4_Witness ==
    \E p \in Procs :
        /\ call[p].pc = "release" /\ call[p].ctx = "scope"
        /\ hist[p].outcome = "lockfail" /\ mgr[p].lock_id # NoId

\* C5: when _release_lock reads a stored lease whose lock_id is not the
\* instance's, it deletes nothing (the stored lease is unchanged), returns
\* False and clears lock_id.
C5_NonOwnerReleaseKeepsLease ==
    [][\A p \in Procs :
          /\ call[p].pc = "rel_info" /\ call'[p].pc # "rel_info"
          /\ lock.lock_id # mgr[p].lock_id
          => /\ lock' = lock
             /\ call'[p].pc # "rel_delete"
             /\ ~hist'[p].relOk
             /\ mgr'[p].lock_id = NoId]_vars

\* a release_lock that found another instance's lease has returned False and
\* that lease is still stored
C5_Witness ==
    \E p \in Procs :
        /\ call[p].pc = "idle" /\ hist[p].relCalls = 1 /\ ~hist[p].relOk
        /\ lock.exists /\ lock.lock_id # call[p].id /\ mgr[p].lock_id = NoId

\* C6: an iteration of acquire_lock that reads a lease older than
\* lock_timeout goes on, without sleeping and whatever its attempt counter,
\* to delete the lease and write its own, and acquire_lock returns success.
C6_ExpiredLeaseReplaced ==
    [][\A p \in Procs :
          /\ ( /\ call[p].pc = "acq_info" /\ call'[p].pc # "acq_info"
               /\ lock.exists /\ lock.age > cfg.lock_timeout )
             => /\ call'[p].pc = "acq_force"
                /\ call'[p].attempt = call[p].attempt
                /\ call'[p].sleepLeft = 0
          /\ ( call[p].pc = "acq_force" /\ call'[p].pc # "acq_force" )
             => call'[p].pc = "acq_create" /\ ~lock'.exists
          /\ ( /\ call[p].pc = "acq_create" /\ call'[p].pc # "acq_create"
               /\ hist[p].expired )
             => /\ lock' = new_lease(call[p].id)
                /\ mgr'[p].lock_id = call[p].id
                /\ call'[p].pc \in {"ws_download", "body"}]_vars

\* a contender whose attempt counter is at the ceiling has found the lease
\* expired and deleted it
C6_Witness ==
    \E p \in Procs :
        /\ call[p].pc = "acq_create" /\ hist[p].expired
        /\ call[p].attempt = cfg.attempts /\ ~lock.exists

\* C7: with lock_timeout 5, retry delay 2, 5 retry attempts and an acquire
\* timeout of 30 (or 60), a contender of a crashed holder's lease never gets
\* DatabaseLockException: every poll that finds the lease older than 5 goes on
\* to replace it, acquire_lock returns after at most lock_timeout + 1 time
\* units and fewer sleeps than the ceiling, well inside the timeout, and
\* with_session ends with the transform's outcome.
C7_CrashRecovery ==
    [][\A p \in Procs :
          cfg \in C7Recovering =>
              /\ hist'[p].outcome # "lockfail"
              /\ call'[p].pc # "acq_owner"
              /\ ( /\ call[p].pc = "acq_info" /\ call'[p].pc # "acq_info"
                   /\ lock.age > cfg.lock_timeout )
                 => call'[p].pc = "acq_force"
              /\ ( call[p].pc = "acq_create" /\ call'[p].pc = "ws_download" )
                 => /\ call[p].elapsed <= cfg.lock_timeout + 1
                    /\ call[p].elapsed < cfg.timeout
                    /\ call[p].attempt < cfg.attempts
              /\ SessionEnds(p) => hist'[p].outcome \in {"result", "raised"}]_vars

\* the contender started right after the crash, polled every retry delay
\* while the lease was live, and at its first poll after the expiry has
\* found the lease expired and deleted it
C7_Witness ==
    /\ cfg = C7Config
    /\ \E p \in Procs :
          /\ call[p].pc = "acq_create" /\ hist[p].expired /\ ~lock.exists
          /\ call[p].elapsed = cfg.lock_timeout + 1
          /\ call[p].attempt * cfg.delay = call[p].elapsed
          /\ \E a \in Procs : call[a].pc = "crashed"

\* C8 as stated: a with_session call that returns a result has made exactly
\* one write to the canonical key and then exactly one to a backup key.
C8_OneCanonicalOneBackup ==
    \A p \in Procs :
        hist[p].outcome = "result" => hist[p].wlog = <<"canon", "backup">>

\* C8: the data-key writes of a with_session call are at most one write to
\* the canonical key followed by at most one to a backup key; a call that
\* returns a result has made exactly one of each unless upload_db caught a
\* store error, and then it has made none or the canonical write only.
C8_CanonicalThenBackupUnlessError ==
    \A p \in Procs :
        /\ hist[p].wlog \in {<<>>, <<"canon">>, <<"canon", "backup">>}
        /\ hist[p].outcome = "result"
             => IF hist[p].uploadErr
                THEN hist[p].wlog \in {<<>>, <<"canon">>}
                ELSE hist[p].wlog = <<"canon", "backup">>

\* a call has returned its result after the canonical write succeeded and the
\* backup write failed
C8_Witness ==
    \E p \in Procs :
        /\ call[p].pc = "idle" /\ hist[p].outcome = "result"
        /\ hist[p].uploadErr /\ hist[p].wlog = <<"canon">>

\* C9: backup blobs are append-only: every successful backup write of
\* upload_db adds a backup blob and leaves the existing ones as they were,
\* whatever the timing.  Stated here for the upload of a call that started
\* after an earlier call had returned its result, no other call running.
\* Refuted: the backup key has the resolution of a second, and the second of
\* two uploads in one second overwrites the backup blob of the first.
C9_BackupsAppendOnly ==
    [][\A p \in Procs :
          /\ call[p].pc = "ws_backup"
          /\ hist'[p].wlog = Append(hist[p].wlog, "backup")
          /\ hist[p].mustSee # {}
          /\ \A q \in Procs \ {p} : call[q].pc = "idle"
          => /\ Len(backups') = Len(backups) + 1
             /\ \A i \in 1..Len(backups) : backups'[i] = backups[i]]_vars

\* C10: starting from an absent canonical blob, when the first with_session
\* call has committed a record and returned, the transform of the second
\* call, started afterwards, runs on a local file that holds that record.
C10_RoundTrip ==
    \A q \in Procs :
        /\ ncalls = 2
        /\ call[q].pc = "ws_func" /\ call[q].id = 2
        /\ 1 \in hist[q].mustSee
        => 1 \in mgr[q].local.data

\* the second call, made by another instance than the first, is in its
\* transform and its downloaded file holds the record of the first call
C10_Witness ==
    \E p, q \in Procs :
        /\ p # q /\ ncalls = 2
        /\ call[p].pc = "idle" /\ hist[p].outcome = "result"
        /\ hist[p].wlog = <<"canon", "backup">>
        /\ call[q].pc = "ws_func" /\ call[q].id = 2
        /\ 1 \in hist[q].mustSee /\ 1 \in mgr[q].local.data

\* the empty store that initialize_db creates where no file exists
EmptyStore == [exists |-> TRUE, data |-> {}]

\* C11: a download_db that finds no canonical blob (and meets no store
\* error) leaves a freshly bootstrapped empty store at local_path, whatever
\* the local file held before.  Refuted: initialize_db runs create_all on
\* the file that is there, and the records of an earlier run stay in it.
C11_FreshStoreWhenNoBlob ==
    [][\A p \in Procs :
          /\ call[p].pc = "ws_download" /\ call'[p].pc \in {"ws_func", "ws_session"}
          /\ ~canon.exists /\ ~hist'[p].dlErr
          => mgr'[p].local = EmptyStore]_vars

\* the step in which download_db of p catches a store error
FetchFails(p) ==
    /\ call[p].pc \in {"ws_download", "ws_session"}
    /\ ~hist[p].dlErr /\ hist'[p].dlErr

C13_UploadFailureNotEscalated ==
    [][\A p \in Procs :
          SessionEnds(p) /\ hist'[p].uploadErr
              => /\ hist'[p].outcome = "result"
                 /\ hist'[p].relCalls = 1
                 /\ mgr'[p].lock_id = NoId
                 /\ lock'.exists
                      => lock.lock_id # mgr[p].lock_id \/ ~hist'[p].relOk]_vars

\* a call whose canonical write failed has returned its result and its lease
\* is deleted
C13_Witness ==
    \E p \in Procs :
        /\ call[p].pc = "idle" /\ hist[p].uploadErr /\ hist[p].wlog = <<>>
        /\ hist[p].outcome = "result" /\ hist[p].relCalls = 1
        /\ hist[p].relOk /\ ~lock.exists

\* the step in which upload_db of p catches a store error
UploadFails(p) ==
    /\ call[p].pc \in {"ws_upload", "ws_backup"}
    /\ ~hist[p].uploadErr /\ hist'[p].uploadErr

\* C14 as stated: a with_session call whose upload_db caught a store error
\* has written neither the canonical blob nor a backup blob, whichever of
\* the two writes failed.
C14_RemoteUnaffectedByFailedUpload ==
    \A p \in Procs : hist[p].uploadErr => hist[p].wlog = <<>>

\* C14: the write of upload_db that fails changes neither the canonical blob
\* nor the backup blobs, and the call writes no backup blob; when the failing
\* write is the canonical one the call has written nothing at all, when it
\* is the backup one the canonical blob has already been replaced.
C14_FailedWriteChangesNothing ==
    [][\A p \in Procs :
          UploadFails(p)
              => /\ canon' = canon /\ backups' = backups
                 /\ call[p].pc = "ws_upload" => hist'[p].wlog = <<>>
                 /\ call[p].pc = "ws_backup" => hist'[p].wlog = <<"canon">>]_vars

\* the backup write of a call has failed after its canonical write replaced
\* the canonical blob by a file holding the record of the call
C14_Witness ==
    \E p \in Procs :
        /\ call[p].pc = "release" /\ hist[p].uploadErr
        /\ hist[p].wlog = <<"canon">>
        /\ canon.exists /\ call[p].id \in canon.data /\ backups = <<>>

\* C15: an iteration of acquire_lock that reads a live lease increments the
\* attempt counter and sleeps LOCK_RETRY_DELAY while the counter is at most
\* LOCK_RETRY_ATTEMPTS; once the counter exceeds it, after exactly
\* LOCK_RETRY_ATTEMPTS sleeps and whatever the time elapsed, the call reads
\* the lease once more, changes nothing in the store and raises
\* DatabaseLockException naming the lock_id it has just read.  The timeout
\* ends the call only at a wake-up, the ceiling only after a failed
\* iteration.
C15_AttemptCeiling ==
    [][\A p \in Procs :
          /\ ( /\ call[p].pc = "acq_info" /\ call'[p].pc # "acq_info"
               /\ lock.exists /\ lock.age <= cfg.lock_timeout )
             => /\ call'[p].attempt = call[p].attempt + 1
                /\ IF call[p].attempt + 1 > cfg.attempts
                   THEN call'[p].pc = "acq_owner"
                   ELSE call'[p].pc = "acq_sleep" /\ call'[p].sleepLeft = cfg.delay
          /\ call'[p].pc = "acq_sleep" => call'[p].attempt <= cfg.attempts
          /\ call'[p].pc = "acq_owner" => call'[p].attempt = cfg.attempts + 1
          /\ ( call[p].pc = "acq_owner" /\ call'[p].pc # "acq_owner" )
             => /\ call'[p].pc \notin AcqPcs \cup HolderPcs \/ call[p].inScope
                /\ call[p].ctx = "session" => hist'[p].outcome = "lockfail"
                /\ hist'[p].owner = lock.lock_id
                /\ lock' = lock /\ mgr'[p] = mgr[p]]_vars

\* the attempt ceiling has ended a with_session call before its timeout had
\* elapsed; the exception names the holder whose lease is still stored
C15_Witness ==
    \E p \in Procs :
        /\ call[p].pc = "idle" /\ hist[p].outcome = "lockfail"
        /\ hist[p].owner # NoId /\ lock.exists /\ lock.lock_id = hist[p].owner
        /\ \E q \in Procs \ {p} : mgr[q].lock_id = hist[p].owner

\* the step in which acquire_lock of p returns True
AcquireSucceeds(p) ==
    call[p].pc = "acq_create" /\ call'[p].pc \in {"ws_download", "body"}

\* C16 as stated: acquire_lock never returns success once more than
\* `timeout` time units have elapsed since it started.
C16_NoSuccessAfterTimeout ==
    [][\A p \in Procs :
          AcquireSucceeds(p) => call[p].elapsed <= cfg.timeout]_vars

\* C16: the timeout is tested when an iteration begins: a call that wakes up
\* with more than `timeout` time units elapsed raises DatabaseLockException
\* and writes no lease, even when the lease is absent or expired, and no
\* iteration begins after the timeout has elapsed (an iteration that began
\* in time runs to its end).
C16_NoIterationAfterTimeout ==
    [][\A p \in Procs :
          /\ ( call[p].pc = "acq_sleep" /\ call'[p].pc # "acq_sleep" )
             => IF call[p].elapsed > cfg.timeout
                THEN /\ call'[p].pc \notin AcqPcs
                     /\ call[p].ctx = "session" => hist'[p].outcome = "lockfail"
                     /\ lock' = lock /\ mgr'[p] = mgr[p]
                ELSE call'[p].pc = "acq_exists"
          /\ ( call[p].pc # "acq_exists" /\ call'[p].pc = "acq_exists" )
             => call'[p].elapsed <= cfg.timeout]_vars

\* a call wakes up after its timeout has elapsed while no lease is stored: it
\* is about to raise, not to write its lease
C16_Witness ==
    \E p \in Procs :
        /\ call[p].pc = "acq_sleep" /\ call[p].sleepLeft = 0
        /\ call[p].elapsed > cfg.timeout /\ ~lock.exists

\* the step in which acquire_lock of p classifies the lease it has read
ClassifiesLease(p) == call[p].pc = "acq_info" /\ call'[p].pc # "acq_info"

\* C17: whatever the outcome of the read, a stored lease is classified as
\* expired (and then force-released) if and only if its age exceeds
\* lock_timeout; a lease of age at most lock_timeout is never classified as
\* expired.
C17_ExpiredIffOlderThanTimeout ==
    [][\A p \in Procs :
          ( ClassifiesLease(p) /\ lock.exists )
          => ( call'[p].pc = "acq_force" <=> lock.age > cfg.lock_timeout )]_vars

\* the step in which acquire_lock raises inside with_session
LockFails(p) ==
    /\ call[p].ctx = "session" /\ call[p].pc \in AcqPcs
    /\ hist'[p].outcome = "lockfail"

\* C18: when acquire_lock raises inside with_session the call ends with that
\* exception at once: download_db has not been called (so the transform has
\* not run), the local file is as it was, and the call has written neither
\* the canonical blob nor a backup.
C18_LockFailureStartsNothing ==
    [][\A p \in Procs :
          /\ LockFails(p)
             => /\ SessionEnds(p)
                /\ ~hist'[p].started /\ hist'[p].wlog = <<>>
                /\ mgr'[p].local = mgr[p].local
                /\ canon' = canon /\ backups' = backups
          /\ hist[p].outcome = "lockfail"
             => ~hist[p].started /\ hist[p].wlog = <<>>
          /\ call[p].pc \in {"ws_session", "ws_func", "ws_upload", "ws_backup"}
             => hist[p].started]_vars

\* a with_session call has ended with the lock exception, having started
\* nothing, while the other process was inside its transaction
C18_Witness ==
    \E p, q \in Procs :
        /\ p # q
        /\ call[p].pc = "idle" /\ hist[p].outcome = "lockfail"
        /\ ~hist[p].started /\ hist[p].wlog = <<>>
        /\ hist[q].started /\ call[q].ctx = "session"

\* the step in which func(session) or session.commit() raises
TransformFails(p) == call[p].pc = "ws_func" /\ hist'[p].outcome = "raised"

\* C19: when the transform or the commit raises, the local file keeps its
\* content (rollback) and the call goes to release_lock without calling
\* upload_db; from then on the outcome stays the raised error and nothing is
\* written; when the call ends release_lock has been called once, lock_id is
\* None and the instance's own lease has been deleted (unless the store
\* failed during the release).
C19_TransformFailureSurfaced ==
    [][\A p \in Procs :
          /\ TransformFails(p)
             => /\ call'[p].pc = "release"
                /\ mgr'[p].local = mgr[p].local
                /\ canon' = canon /\ backups' = backups
                /\ hist'[p].wlog = <<>> /\ hist'[p].relCalls = 0
          /\ ( call[p].ctx = "session" /\ hist[p].outcome = "raised" )
             => /\ hist'[p].outcome = "raised" /\ hist'[p].wlog = <<>>
                /\ call'[p].pc \notin {"ws_func", "ws_upload", "ws_backup"}
                /\ SessionEnds(p)
                   => /\ hist'[p].relCalls = 1 /\ mgr'[p].lock_id = NoId
                      /\ ( lock.exists /\ lock.lock_id = mgr[p].lock_id
                                       /\ hist'[p].relOk )
                         => ~lock'.exists]_vars

\* the first call of a process, started after the other process had returned,
\* downloaded what that one had published; its transform raised and the call
\* is over: its local file still equals the canonical blob and its lease is
\* gone
C19_Witness ==
    \E p, q \in Procs :
        /\ p # q
        /\ call[q].pc = "idle" /\ hist[q].outcome = "result"
        /\ call[p].pc = "idle" /\ hist[p].outcome = "raised"
        /\ hist[p].direct /\ hist[p].mustSee # {}
        /\ mgr[p].engine /\ mgr[p].local = canon /\ canon.data # {}
        /\ hist[p].relCalls = 1 /\ hist[p].relOk
        /\ mgr[p].lock_id = NoId /\ ~lock.exists

\* the step in which upload_db of p writes the canonical key
WritesCanonical(p) ==
    /\ call[p].pc = "ws_upload"
    /\ Len(hist'[p].wlog) = Len(hist[p].wlog) + 1

\* C20: at every write of the canonical key the lease blob exists and carries
\* the lock_id of the instance that writes.
C20_CanonicalWrittenByLeaseHolder ==
    [][\A p \in Procs :
          WritesCanonical(p)
              => lock.exists /\ lock.lock_id = mgr[p].lock_id]_vars

\* a step taken by an instance that has no bucket
LocalStep(p) ==
    /\ p \notin cfg.bucket
    /\ call'[p].pc # call[p].pc \/ hist'[p] # hist[p]

\* C21: an instance without a bucket gets through acquire_lock at once, and
\* none of its steps (acquire_lock, download, upload_db, release_lock,
\* _force_release_lock) reads or writes the store or sets lock_id: the lease,
\* the canonical blob and the backups are left as they are, no lock
\* operation fails, and release_lock goes through without its store steps.
C21_LocalOnlyMode ==
    [][\A p \in Procs :
          /\ LocalStep(p)
             => /\ lock' = lock /\ canon' = canon /\ backups' = backups
                /\ mgr'[p].lock_id = NoId
                /\ hist'[p].wlog = <<>> /\ hist'[p].relOk
                /\ hist'[p].outcome # "lockfail"
                /\ call'[p].pc \notin
                      AcqPcs \cup {"rel_info", "rel_delete", "ws_backup"}
          /\ ( p \notin cfg.bucket /\ call'[p].id \notin {call[p].id, NoId} )
             => call'[p].pc \in {"ws_download", "body"}]_vars

\* an instance without a bucket has run a whole with_session, which returned
\* its result, while another instance's lease was in the store from before
\* its acquire_lock; its record is in its local file only
C21_Witness ==
    \E p \in Procs :
        /\ p \notin cfg.bucket
        /\ call[p].pc = "idle" /\ hist[p].outcome = "result"
        /\ ~hist[p].direct /\ lock.exists
        /\ mgr[p].local.data # {}
        /\ canon.exists => canon.data \cap mgr[p].local.data = {}

\* the positions inside release_lock
ReleasePcs == {"release", "rel_info", "rel_delete"}

\* C22: a DatabaseLock scope enters its body only when acquire_lock has
\* written the instance's lease; when acquire_lock raises, the scope is over
\* without a body, lock_id is None and no lease of the call is stored; the
\* body is left only into release_lock (or into a with_session called in
\* it), and the scope is over only at the end of that one release_lock, with
\* lock_id None and the exception that left the body still on its way.
C22_ScopeAcquiresAndReleasesOnce ==
    [][\A p \in Procs :
          call[p].ctx = "scope"
          => /\ ( call[p].pc \in AcqPcs /\ call'[p].pc \notin AcqPcs )
                => IF call'[p].pc = "body"
                   THEN /\ lock' = new_lease(call[p].id)
                        /\ mgr'[p].lock_id = call[p].id
                   ELSE /\ call'[p].pc = "idle" /\ mgr'[p].lock_id = NoId
                        /\ lock' = lock
                        /\ ~(lock.exists /\ lock.lock_id = call[p].id)
             /\ ( call[p].pc = "body" /\ call'[p].pc # "body" )
                => \/ call'[p].ctx = "scope" /\ call'[p].pc = "release"
                   \/ call'[p].ctx = "session"
             /\ ( call[p].pc \in ReleasePcs /\ call'[p].pc # call[p].pc )
                => /\ call'[p].pc \in (ReleasePcs \ {"release"}) \cup {"idle"}
                   /\ hist'[p].outcome = hist[p].outcome
             /\ ( call[p].pc \notin AcqPcs /\ call'[p].ctx = "none" )
                => /\ call[p].pc \in ReleasePcs
                   /\ mgr'[p].lock_id = NoId]_vars

\* a scope whose body was left by an exception is inside its release_lock,
\* about to delete the lease it wrote
C22_Witness ==
    \E p \in Procs :
        /\ call[p].ctx = "scope" /\ call[p].pc = "rel_delete"
        /\ hist[p].outcome \in {"raised", "lockfail"}
        /\ lock.exists /\ lock.lock_id = mgr[p].lock_id

\* the stored lease is in force: it exists and has not expired
LiveLease == lock.exists /\ lock.age <= cfg.lock_timeout

\* the step in which acquire_lock of p deletes the lease (_force_release_lock)
\* or writes its own over it (_create_lock)
AcquireChangesLease(p) ==
    /\ call[p].pc \in {"acq_force", "acq_create"}
    /\ call'[p].pc # call[p].pc
    /\ lock' # lock

\* C23: no acquire_lock deletes or overwrites a lease that is in force at the
\* moment of the delete or the write.
C23_AcquireSparesLiveLease ==
    [][\A p \in Procs : AcquireChangesLease(p) => ~LiveLease]_vars

\* a step of the acquire_lock of a with_session called in the body of a
\* DatabaseLock scope of the same instance
NestedAcquireStep(p) ==
    /\ call[p].ctx = "session" /\ call[p].inScope
    /\ call[p].pc \in AcqPcs /\ call'[p].pc # call[p].pc

\* C24: a with_session called inside a DatabaseLock scope of the same
\* instance acquires without waiting (it neither sleeps nor reaches the
\* attempt ceiling) and does not end with DatabaseLockException.
C24_NestedSessionAcquiresAtOnce ==
    [][\A p \in Procs :
          NestedAcquireStep(p)
              => /\ call'[p].pc \notin {"acq_sleep", "acq_owner"}
                 /\ hist'[p].outcome # "lockfail"]_vars

\* the step in which _release_lock of p deletes the lease blob
ReleaseDeletes(p) ==
    /\ call[p].pc = "rel_delete" /\ call'[p].pc # "rel_delete"
    /\ lock.exists /\ ~lock'.exists

\* C25: the blob deleted by release_lock is the lease written by the
\* releasing instance: at the delete the stored lock_id is the instance's.
C25_ReleaseDeletesOwnLease ==
    [][\A p \in Procs :
          ReleaseDeletes(p) => lock.lock_id = mgr[p].lock_id]_vars

\* C26: a contender whose existence check or lease read raised does not
\* delete or overwrite a lease that is in force, so it does not return
\* success over it.
C26_ReadFailureSparesLiveLease ==
    [][\A p \in Procs :
          ( hist[p].readErr /\ AcquireChangesLease(p) ) => ~LiveLease]_vars

\* the step in which a release_lock of p returns
ReleaseReturns(p) ==
    /\ call[p].pc \in ReleasePcs
    /\ call'[p].pc \notin ReleasePcs \/ call'[p].ctx # call[p].ctx

\* C27: when release_lock returns lock_id is None, whether the lease was
\* deleted, belonged to another instance, was gone or unreadable, or the
\* delete raised; a release_lock that starts with lock_id None returns
\* without reading or deleting anything.
C27_LockIdNoneAfterRelease ==
    [][\A p \in Procs :
          /\ ReleaseReturns(p) => mgr'[p].lock_id = NoId
          /\ ( call[p].pc = "release" /\ mgr[p].lock_id = NoId
                                      /\ call'[p] # call[p] )
             => /\ ReleaseReturns(p)
                /\ lock' = lock /\ mgr'[p] = mgr[p]]_vars

\* the release_lock of a with_session has returned False, leaving the lease
\* in the store and lock_id None, and the release_lock of the enclosing
\* scope comes right after it
C27_Witness ==
    \E p \in Procs :
        /\ call[p].ctx = "scope" /\ call[p].pc = "release"
        /\ hist[p].relCalls = 1 /\ ~hist[p].relOk
        /\ mgr[p].lock_id = NoId /\ lock.exists

\* the first step of a release_lock of p
ReleaseStarts(p) == call[p].pc = "release" /\ call'[p] # call[p]

\* C28: release_lock on an instance whose lock_id is None returns at once: it
\* does not go on to the read or the delete of _release_lock, and the lease
\* (whoever holds it), the canonical blob and the backups stay as they are.
C28_ReleaseWithoutLeaseIsNoOp ==
    [][\A p \in Procs :
          ( ReleaseStarts(p) /\ mgr[p].lock_id = NoId )
              => /\ call'[p].pc \notin {"rel_info", "rel_delete"}
                 /\ lock' = lock /\ canon' = canon /\ backups' = backups
                 /\ mgr'[p].lock_id = NoId]_vars

\* an instance that never wrote a lease has called release_lock directly
\* and is idle again, while the lease of another instance is in force
C28_Witness ==
    \E p, q \in Procs :
        /\ p # q
        /\ call[p].pc = "idle" /\ hist[p].outcome = "released"
        /\ mgr[p].local = NoBlob
        /\ LiveLease /\ lock.lock_id = mgr[q].lock_id

\* the step in which _create_lock of p returns False
CreateFails(p) ==
    call[p].pc = "acq_create" /\ call'[p].pc \in {"acq_sleep", "acq_owner"}

\* C29: a failed lease write leaves the lease as it was and lock_id None and
\* raises nothing by itself: it counts an attempt, and the call sleeps the
\* retry delay, or goes to the raise once the attempt ceiling is passed;
\* acquire_lock returns only in a step that writes its lease and sets
\* lock_id, and it raises only from the ceiling or from the timeout check.
C29_FailedWriteIsRetried ==
    [][\A p \in Procs :
          /\ CreateFails(p)
             => /\ lock' = lock /\ mgr'[p].lock_id = NoId
                /\ hist'[p].outcome = hist[p].outcome
                /\ call'[p].attempt = call[p].attempt + 1
                /\ IF call'[p].attempt > cfg.attempts
                   THEN call'[p].pc = "acq_owner"
                   ELSE call'[p].pc = "acq_sleep"
                        /\ call'[p].sleepLeft = cfg.delay
          /\ ( call[p].pc = "acq_create" /\ call'[p].pc \notin AcqPcs )
             => /\ mgr'[p].lock_id # NoId
                /\ lock' = new_lease(mgr'[p].lock_id)
          /\ ( call[p].pc \in AcqPcs /\ call'[p].pc \notin AcqPcs )
             => call[p].pc \in {"acq_create", "acq_owner", "acq_sleep"}]_vars

\* no instance has ever held a lease, and one is back at the lease write
\* after its earlier write failed and it slept the retry delay
C29_Witness ==
    \E p \in Procs :
        /\ call[p].pc = "acq_create" /\ call[p].attempt > 0
        /\ mgr[p].lock_id = NoId /\ ~lock.exists
        /\ \A q \in Procs \ {p} : call[q].pc = "idle" /\ hist[q] = NoHist

\* the place of a position in the order acquire, download (and the second
\* download of get_session), transform and commit, upload, release
Rank(pc) ==
    CASE pc \in AcqPcs -> 0
      [] pc = "ws_download" -> 1
      [] pc = "ws_session" -> 2
      [] pc = "ws_func" -> 3
      [] pc = "ws_upload" -> 4
      [] pc = "ws_backup" -> 5
      [] pc \in ReleasePcs -> 6
      [] OTHER -> 7

\* a step inside one with_session call of p that changes its position
SessionStep(p) ==
    /\ call[p].ctx = "session" /\ call'[p].ctx = "session"
    /\ call'[p].id = call[p].id
    /\ call'[p].pc # call[p].pc

\* C30: one with_session call never steps back in the order acquire,
\* download, transform and commit, upload, release: download starts in the
\* step that writes the lease, the transform starts when download_db and
\* get_session are over (the local file and the engine exist), upload starts
\* in the step of the commit, and release_lock starts either when the upload
\* attempt is over or when an error has left the try block.
C30_StepOrder ==
    [][\A p \in Procs :
          SessionStep(p)
          => /\ Rank(call'[p].pc) >= Rank(call[p].pc)
             /\ call'[p].pc = "ws_download"
                => /\ call[p].pc = "acq_create"
                   /\ lock' = new_lease(mgr'[p].lock_id)
             /\ call'[p].pc = "ws_session" => call[p].pc = "ws_download"
             /\ call'[p].pc = "ws_func"
                => /\ call[p].pc \in {"ws_download", "ws_session"}
                   /\ hist'[p].started
                   /\ mgr'[p].local.exists /\ mgr'[p].engine
             /\ call'[p].pc = "ws_upload" => call[p].pc = "ws_func"
             /\ call'[p].pc = "ws_backup"
                => call[p].pc = "ws_upload" /\ canon'.data = mgr[p].local.data
             /\ call'[p].pc = "release"
                => IF call[p].pc \in {"ws_upload", "ws_backup"}
                   THEN hist'[p].outcome = "result"
                   ELSE /\ hist'[p].outcome = "raised"
                        /\ call[p].pc \in {"ws_download", "ws_session", "ws_func"}
             /\ call'[p].pc \in {"rel_info", "rel_delete"}
                => call[p].pc \in ReleasePcs]_vars

\* a with_session call has gone through all its steps: its record was
\* committed, written to the canonical key and to a backup, the call
\* released its lease and returned
C30_Witness ==
    \E p \in Procs :
        /\ call[p].pc = "idle" /\ hist[p].outcome = "result"
        /\ hist[p].started /\ hist[p].direct
        /\ hist[p].wlog = <<"canon", "backup">>
        /\ hist[p].relCalls = 1 /\ hist[p].relOk
        /\ mgr[p].local.data # {} /\ canon = mgr[p].local
        /\ Len(backups) > 0 /\ backups[Len(backups)] = canon.data
        /\ ~lock.exists

\* the positions inside one iteration of the acquire loop
IterationPcs == {"acq_exists", "acq_info", "acq_force", "acq_create"}

\* the iteration of acquire_lock of p that is running is over without a
\* return
IterationFails(p) ==
    call[p].pc \in IterationPcs /\ call'[p].pc \in {"acq_sleep", "acq_owner"}

\* every iteration that does not return counts one attempt and is followed
\* by one sleep or by the raise; a sleep is followed by the next iteration or
\* by the raise of the timeout; so the attempt counter is the number of
\* sleeps started and, inside an iteration, the number of earlier iterations
AttemptsCounted ==
    [][\A p \in Procs :
          /\ IterationFails(p) => call'[p].attempt = call[p].attempt + 1
          /\ ( call[p].pc \in AcqPcs /\ call'[p].pc \in AcqPcs
                                      /\ ~IterationFails(p) )
             => call'[p].attempt = call[p].attempt
          /\ ( call'[p].pc = "acq_sleep" /\ call[p].pc # "acq_sleep" )
             => IterationFails(p)
          /\ ( call'[p].pc = "acq_exists" /\ call[p].pc \in AcqPcs )
             => call[p].pc \in {"acq_exists", "acq_sleep"}]_vars

\* at most LOCK_RETRY_ATTEMPTS + 1 iterations and LOCK_RETRY_ATTEMPTS sleeps
AttemptsBounded ==
    \A p \in Procs :
        /\ call[p].pc \in IterationPcs \cup {"acq_sleep"}
           => call[p].attempt <= cfg.attempts
        /\ call[p].pc = "acq_owner" => call[p].attempt = cfg.attempts + 1

\* C31: acquire_lock always terminates: a call that is inside acquire_lock
\* eventually returns or raises, having run at most LOCK_RETRY_ATTEMPTS + 1
\* iterations and slept at most LOCK_RETRY_ATTEMPTS times, whatever the other
\* processes do and whether the store operations succeed or raise.
C31_AcquireTerminates ==
    /\ AttemptsCounted
    /\ []AttemptsBounded
    /\ \A p \in Procs :
          (call[p].pc \in AcqPcs) ~> (call[p].pc \notin AcqPcs)

\* no lease was ever stored and nobody else ever called: a call has run the
\* last iteration allowed within the time allowed, because its lease writes
\* kept failing, and raises
C31_Witness ==
    \E p \in Procs :
        /\ call[p].pc = "acq_owner" /\ call[p].attempt = cfg.attempts + 1
        /\ call[p].elapsed <= cfg.timeout /\ ~lock.exists
        /\ \A q \in Procs \ {p} : call[q].pc = "idle" /\ hist[q] = NoHist

\* the step in which acquire_lock of p raises DatabaseLockException
AcquireRaises(p) ==
    call[p].pc \in {"acq_owner", "acq_sleep"} /\ call'[p].pc \notin AcqPcs

\* C32: an acquire_lock that fails while a lease of another process is in
\* force leaves the store as it was: the call has not deleted that lease, its
\* raise does not touch the lease blob, and the failing instance's lock_id is
\* None afterwards.
C32_FailedAcquireLeavesStore ==
    [][\A p \in Procs :
          AcquireRaises(p)
              => /\ ~hist[p].broke
                 /\ lock' = lock
                 /\ ForeignLiveLease(p) => mgr'[p].lock_id = NoId]_vars

\* the step in which download_db of the with_session of p fetches the
\* canonical blob
DownloadsCanonical(p) ==
    call[p].pc = "ws_download" /\ call'[p].pc # "ws_download"

\* no acquire_lock that is running or has returned found a lease older than
\* lock_timeout: the age of a lease is looked at nowhere else, so every
\* transaction counts as shorter than lock_timeout
NoLeaseOutlived == \A r \in Procs : ~hist[r].expired

\* what the with_session of p has downloaded: its local file without the
\* record of its own transform
Downloaded(p) == mgr[p].local.data \ {call[p].id}

\* C33: no lost update.  With every store operation succeeding and no lease
\* outlived, a download fetches the records of all the with_session calls
\* that have returned a result, and at a write of the canonical key the
\* canonical blob is still the version the writer downloaded (nobody else has
\* uploaded since, so no two transactions download the same version and both
\* upload).
C33_NoLostUpdate ==
    [][NoLeaseOutlived
          => \A p \in Procs :
                /\ DownloadsCanonical(p) => returned \subseteq mgr'[p].local.data
                /\ WritesCanonical(p) => canon.data = Downloaded(p)]_vars

=============================================================================
